---- MODULE Spec2Model ----
(***************************************************************************)
(* Placement engine of warehouse-manager (src/app.py): Container, Shelf,   *)
(* StorageStack and Warehouse.  Containers are addressed by id; a shelf's  *)
(* container list is a sequence of ids (ids are unique, so the dataclass   *)
(* equality used by `in` and list.remove coincides with identity of id).   *)
(* Optional[int] shelf_level is a set: {} is None, {n} is level n.         *)
(***************************************************************************)
EXTENDS Integers, Sequences, FiniteSets, TLC

VARIABLES scenario, containers, stacks, unplaced_containers, last, calls

vars == <<scenario, containers, stacks, unplaced_containers, last, calls>>

(* ---- bounds ---------------------------------------------------------- *)
\* number of calls made on the warehouse in one run
MaxCalls == 3
\* number of calls made in one run on the stack with the small reserved
\* shelf (scenario R)
MaxCallsR == 4
\* number of calls made in one run on the single shelf of scenario A
MaxCallsA == 4
\* number of calls made in one run on the single shelf of scenario P
MaxCallsP == 5
\* number of shelves added to the stack under construction (scenario L)
MaxShelves == 3

(* ---- program constants ------------------------------------------------ *)
\* margin of the row fill (x_offset = 5, z_offset = 5, length - 5, width - 5)
Margin == 5
\* gap between neighbours of the row fill (+ 3)
Gap == 3
\* lowest level a priority container may be put on
PriorityMinLevel == 2

(* ---- generic helpers --------------------------------------------------- *)
Range(s) == {s[i] : i \in 1..Len(s)}

Max(a, b) == IF a >= b THEN a ELSE b

\* the element of a one-element set; { e(v) : v \in {x} } binds v to the
\* value of x, so that a result used several times is computed once
TheOne(S) == CHOOSE x \in S : TRUE

RECURSIVE SumSeq(_)
SumSeq(s) == IF s = <<>> THEN 0 ELSE Head(s) + SumSeq(Tail(s))

RECURSIVE Count(_, _)
Count(s, e) ==
    IF s = <<>> THEN 0
    ELSE (IF Head(s) = e THEN 1 ELSE 0) + Count(Tail(s), e)

\* all sequences of distinct elements of S
DistinctSeqs(S) ==
    {q \in UNION {[1..m -> S] : m \in 0..Cardinality(S)} :
        \A i, j \in 1..Len(q) : i # j => q[i] # q[j]}

(* ---- Container --------------------------------------------------------- *)
Container(id, name, weight, length, width, height, is_empty, priority_parts, content) ==
    [id |-> id, name |-> name, weight |-> weight, length |-> length,
     width |-> width, height |-> height, is_empty |-> is_empty,
     priority_parts |-> priority_parts, content |-> content,
     shelf_level |-> {}]

(* ---- Shelf ------------------------------------------------------------- *)
Shelf(level, max_weight, length, width, height, reserved_for_empty) ==
    [level |-> level, max_weight |-> max_weight, length |-> length,
     width |-> width, height |-> height, containers |-> <<>>,
     reserved_for_empty |-> reserved_for_empty]

\* Shelf.current_weight: sum(c.weight for c in self.containers)
current_weight(shelf, cs) ==
    SumSeq([i \in 1..Len(shelf.containers) |-> cs[shelf.containers[i]].weight])

\* RowStep that leaves no gap behind a container
RowStep_no_gap(shelf, st, e) ==
    LET wrapped == IF st.x_offset + e.length > shelf.length - Margin
                   THEN [x_offset |-> Margin,
                         z_offset |-> st.z_offset + st.current_row_max_width + Gap,
                         current_row_max_width |-> 0]
                   ELSE st
    IN  [x_offset |-> wrapped.x_offset + e.length,
         z_offset |-> wrapped.z_offset,
         current_row_max_width |-> Max(wrapped.current_row_max_width, e.width)]

\* one iteration of the loop over the already placed containers
RowStep(shelf, st, e) ==
    LET wrapped == IF st.x_offset + e.length > shelf.length - Margin
                   THEN [x_offset |-> Margin,
                         z_offset |-> st.z_offset + st.current_row_max_width + Gap,
                         current_row_max_width |-> 0]
                   ELSE st
    IN  [x_offset |-> wrapped.x_offset + e.length + Gap,
         z_offset |-> wrapped.z_offset,
         current_row_max_width |-> Max(wrapped.current_row_max_width, e.width)]

\* the loop `for existing_container in self.containers`, from index i on
RECURSIVE RowFill(_, _, _, _)
RowFill(shelf, cs, i, st) ==
    IF i > Len(shelf.containers) THEN st
    ELSE TheOne({ RowFill(shelf, cs, i + 1, next) :
                  next \in {RowStep(shelf, st, cs[shelf.containers[i]])} })

\* can_add_container without the weight gate
can_add_container_no_weight(shelf, c, cs) ==
    IF shelf.reserved_for_empty /\ ~c.is_empty THEN FALSE
    ELSE IF ~shelf.reserved_for_empty /\ c.is_empty THEN FALSE
    ELSE IF c.height > shelf.height THEN FALSE
    ELSE LET st == RowFill(shelf, cs, 1,
                           [x_offset |-> Margin, z_offset |-> Margin,
                            current_row_max_width |-> 0])
             wrap == st.x_offset + c.length > shelf.length - Margin
             x_offset == IF wrap THEN Margin ELSE st.x_offset
             z_offset == IF wrap THEN st.z_offset + st.current_row_max_width + Gap
                         ELSE st.z_offset
         IN  IF z_offset + c.width > shelf.width - Margin THEN FALSE
             ELSE IF x_offset + c.length > shelf.length - Margin THEN FALSE
             ELSE TRUE

\* can_add_container that tests the candidate in the current row only
can_add_container_no_wrap(shelf, c, cs) ==
    IF shelf.reserved_for_empty /\ ~c.is_empty THEN FALSE
    ELSE IF ~shelf.reserved_for_empty /\ c.is_empty THEN FALSE
    ELSE IF current_weight(shelf, cs) + c.weight > shelf.max_weight THEN FALSE
    ELSE IF c.height > shelf.height THEN FALSE
    ELSE LET st == RowFill(shelf, cs, 1,
                           [x_offset |-> Margin, z_offset |-> Margin,
                            current_row_max_width |-> 0])
         IN  IF st.z_offset + c.width > shelf.width - Margin THEN FALSE
             ELSE IF st.x_offset + c.length > shelf.length - Margin THEN FALSE
             ELSE TRUE

\* Shelf.can_add_container
can_add_container(shelf, c, cs) ==
    IF shelf.reserved_for_empty /\ ~c.is_empty THEN FALSE
    ELSE IF ~shelf.reserved_for_empty /\ c.is_empty THEN FALSE
    ELSE IF current_weight(shelf, cs) + c.weight > shelf.max_weight THEN FALSE
    ELSE IF c.height > shelf.height THEN FALSE
    ELSE LET st == RowFill(shelf, cs, 1,
                           [x_offset |-> Margin, z_offset |-> Margin,
                            current_row_max_width |-> 0])
             wrap == st.x_offset + c.length > shelf.length - Margin
             x_offset == IF wrap THEN Margin ELSE st.x_offset
             z_offset == IF wrap THEN st.z_offset + st.current_row_max_width + Gap
                         ELSE st.z_offset
         IN  IF z_offset + c.width > shelf.width - Margin THEN FALSE
             ELSE IF x_offset + c.length > shelf.length - Margin THEN FALSE
             ELSE TRUE

\* list.remove: drop the first occurrence of e
RECURSIVE RemoveFirst(_, _)
RemoveFirst(s, e) ==
    IF s = <<>> THEN <<>>
    ELSE IF Head(s) = e THEN Tail(s)
    ELSE <<Head(s)>> \o RemoveFirst(Tail(s), e)

(* A world is the pair of mutable object graphs the operations work on:    *)
(* w.stacks (the stacks with their shelves) and w.containers.              *)

\* add_container that puts the container in front of the list
add_container_in_front(w, k, s, id) ==
    IF can_add_container(w.stacks[k].shelves[s], w.containers[id], w.containers)
    THEN [w |-> [stacks |-> [w.stacks EXCEPT ![k].shelves[s].containers = <<id>> \o @],
                 containers |-> [w.containers EXCEPT
                                   ![id].shelf_level = {w.stacks[k].shelves[s].level}]],
          ret |-> TRUE]
    ELSE [w |-> w, ret |-> FALSE]

\* Shelf.add_container on shelf s (1-based index) of stack k, as a function
\* from world to [w, ret]
add_container(w, k, s, id) ==
    IF can_add_container(w.stacks[k].shelves[s], w.containers[id], w.containers)
    THEN [w |-> [stacks |-> [w.stacks EXCEPT ![k].shelves[s].containers = Append(@, id)],
                 containers |-> [w.containers EXCEPT
                                   ![id].shelf_level = {w.stacks[k].shelves[s].level}]],
          ret |-> TRUE]
    ELSE [w |-> w, ret |-> FALSE]

\* remove_container that forgets to clear shelf_level
remove_container_keeps_level(w, k, s, id) ==
    IF id \in Range(w.stacks[k].shelves[s].containers)
    THEN [w |-> [stacks |-> [w.stacks EXCEPT ![k].shelves[s].containers = RemoveFirst(@, id)],
                 containers |-> w.containers],
          ret |-> TRUE]
    ELSE [w |-> w, ret |-> FALSE]

\* Shelf.remove_container
remove_container(w, k, s, id) ==
    IF id \in Range(w.stacks[k].shelves[s].containers)
    THEN [w |-> [stacks |-> [w.stacks EXCEPT ![k].shelves[s].containers = RemoveFirst(@, id)],
                 containers |-> [w.containers EXCEPT ![id].shelf_level = {}]],
          ret |-> TRUE]
    ELSE [w |-> w, ret |-> FALSE]

(* ---- areas (both programs) ---------------------------------------------- *)
\* Container.base_area
base_area(c) == c.length * c.width

\* Shelf.total_area
total_area(shelf) == shelf.length * shelf.width

\* Shelf.occupied_area: sum(c.base_area for c in self.containers)
occupied_area(shelf, cs) ==
    SumSeq([i \in 1..Len(shelf.containers) |-> base_area(cs[shelf.containers[i]])])

\* Shelf.free_area
free_area(shelf, cs) == total_area(shelf) - occupied_area(shelf, cs)

(* ---- Shelf of the console calculator (src/storage_calculator.py) --------- *)
(* The repository holds a second, standalone program with its own Shelf:    *)
(* the same fields, an area gate in place of the row fill, and no           *)
(* shelf_level on the container.                                            *)

\* Shelf.can_add_container of the calculator
calc_can_add_container(shelf, c, cs) ==
    IF shelf.reserved_for_empty /\ ~c.is_empty THEN FALSE
    ELSE IF ~shelf.reserved_for_empty /\ c.is_empty THEN FALSE
    ELSE IF current_weight(shelf, cs) + c.weight > shelf.max_weight THEN FALSE
    ELSE IF free_area(shelf, cs) < base_area(c) THEN FALSE
    ELSE IF c.height > shelf.height THEN FALSE
    ELSE TRUE

\* Shelf.add_container of the calculator
calc_add_container(w, k, s, id) ==
    IF calc_can_add_container(w.stacks[k].shelves[s], w.containers[id], w.containers)
    THEN [w |-> [stacks |-> [w.stacks EXCEPT ![k].shelves[s].containers = Append(@, id)],
                 containers |-> w.containers],
          ret |-> TRUE]
    ELSE [w |-> w, ret |-> FALSE]

(* ---- StorageStack ------------------------------------------------------ *)
StorageStack(name, base_length, base_width) ==
    [name |-> name, base_length |-> base_length, base_width |-> base_width,
     shelves |-> <<>>, empty_buffer |-> <<>>, history |-> <<>>]

\* add_shelf that numbers the levels from 1
add_shelf_from_one(stack, max_weight, height, reserved_for_empty) ==
    [stack EXCEPT !.shelves =
        Append(@, Shelf(Len(stack.shelves) + 1, max_weight, stack.base_length,
                        stack.base_width, height, reserved_for_empty))]

\* StorageStack.add_shelf
add_shelf(stack, max_weight, height, reserved_for_empty) ==
    [stack EXCEPT !.shelves =
        Append(@, Shelf(Len(stack.shelves), max_weight, stack.base_length,
                        stack.base_width, height, reserved_for_empty))]

(* ---- StorageStack of the console calculator ------------------------------ *)
\* StorageStack.__init__ of src/storage_calculator.py: no buffer, no history
CalcStorageStack(name, base_length, base_width) ==
    [name |-> name, base_length |-> base_length, base_width |-> base_width,
     shelves |-> <<>>]

\* StorageStack.add_shelf of the calculator
calc_add_shelf(stack, max_weight, height, reserved_for_empty) ==
    [stack EXCEPT !.shelves =
        Append(@, Shelf(Len(stack.shelves), max_weight, stack.base_length,
                        stack.base_width, height, reserved_for_empty))]

(* ---- create_3d_visualization: the containers of one shelf ---------------- *)
\* the loop `for idx, container in enumerate(shelf.containers)` of the
\* renderer from index i on; st is its row cursor, boxes the list of the
\* boxes drawn so far, [id, x_min, x_max, z_min, z_max]; the loop breaks at
\* the first container that does not fit in the width
RECURSIVE draw_loop(_, _, _, _, _, _)
draw_loop(stack, shelf, cs, i, st, boxes) ==
    IF i > Len(shelf.containers) THEN boxes
    ELSE LET c == cs[shelf.containers[i]]
             wrapped == IF st.x_offset + c.length > stack.base_length - Margin
                        THEN [x_offset |-> Margin,
                              z_offset |-> st.z_offset + st.current_row_max_width + Gap,
                              current_row_max_width |-> 0]
                        ELSE st
         IN  IF wrapped.z_offset + c.width > stack.base_width - Margin THEN boxes
             ELSE draw_loop(stack, shelf, cs, i + 1,
                            [x_offset |-> wrapped.x_offset + c.length + Gap,
                             z_offset |-> wrapped.z_offset,
                             current_row_max_width |->
                                 Max(wrapped.current_row_max_width, c.width)],
                            Append(boxes,
                                   [id |-> shelf.containers[i],
                                    x_min |-> wrapped.x_offset,
                                    x_max |-> wrapped.x_offset + c.length,
                                    z_min |-> wrapped.z_offset,
                                    z_max |-> wrapped.z_offset + c.width]))

\* the boxes the renderer draws for shelf s of a stack
drawn_boxes(stack, s, cs) ==
    draw_loop(stack, stack.shelves[s], cs, 1,
              [x_offset |-> Margin, z_offset |-> Margin, current_row_max_width |-> 0],
              <<>>)

\* sorted(shelves, key=lambda s: s.level) over the shelf indices idx of
\* `shelves`: ascending and stable, so the shelf at position i of idx goes
\* behind the shelves of a lower level and the earlier shelves of its level
SortByLevel(idx, shelves) ==
    LET rank(i) ==
            Cardinality({j \in 1..Len(idx) :
                            \/ shelves[idx[j]].level < shelves[idx[i]].level
                            \/ shelves[idx[j]].level = shelves[idx[i]].level /\ j < i}) + 1
    IN  [r \in 1..Len(idx) |-> idx[CHOOSE i \in 1..Len(idx) : rank(i) = r]]

\* a descending sort that turns the containers of one weight around
SortByWeightDesc_unstable(ids, cs) ==
    LET rank(i) ==
            Cardinality({j \in 1..Len(ids) :
                            \/ cs[ids[j]].weight > cs[ids[i]].weight
                            \/ cs[ids[j]].weight = cs[ids[i]].weight /\ j > i}) + 1
    IN  [r \in 1..Len(ids) |-> ids[CHOOSE i \in 1..Len(ids) : rank(i) = r]]

\* list.sort(key=lambda x: x.weight, reverse=True) over container ids:
\* descending and stable, so the container at position i of ids goes behind
\* the heavier containers and the earlier containers of its weight
SortByWeightDesc(ids, cs) ==
    LET rank(i) ==
            Cardinality({j \in 1..Len(ids) :
                            \/ cs[ids[j]].weight > cs[ids[i]].weight
                            \/ cs[ids[j]].weight = cs[ids[i]].weight /\ j < i}) + 1
    IN  [r \in 1..Len(ids) |-> ids[CHOOSE i \in 1..Len(ids) : rank(i) = r]]

\* the three list comprehensions that split the input by type
empty_containers(input, cs) ==
    SelectSeq(input, LAMBDA id : cs[id].is_empty)
\* the priority comprehension without `and not c.is_empty`
priority_containers_with_empties(input, cs) ==
    SortByWeightDesc(SelectSeq(input, LAMBDA id : cs[id].priority_parts), cs)

priority_containers(input, cs) ==
    SortByWeightDesc(SelectSeq(input, LAMBDA id : cs[id].priority_parts /\ ~cs[id].is_empty), cs)
regular_containers(input, cs) ==
    SortByWeightDesc(SelectSeq(input, LAMBDA id : ~cs[id].is_empty /\ ~cs[id].priority_parts), cs)

\* indices 1..n of a list, in list order
Indices(seq) == [i \in 1..Len(seq) |-> i]

\* the shelves of a stack each tier iterates over, as shelf indices in the
\* order of iteration
\* regular shelves from the top level down
regular_shelves_top_down(stack) ==
    LET up == SelectSeq(SortByLevel(Indices(stack.shelves), stack.shelves),
                        LAMBDA s : ~stack.shelves[s].reserved_for_empty)
    IN  [i \in 1..Len(up) |-> up[Len(up) + 1 - i]]

regular_shelves(stack) ==
    SelectSeq(SortByLevel(Indices(stack.shelves), stack.shelves),
              LAMBDA s : ~stack.shelves[s].reserved_for_empty)
\* priority shelves without the level >= 2 filter
priority_shelves_any_level(stack) ==
    SortByLevel(SelectSeq(Indices(stack.shelves),
                          LAMBDA s : ~stack.shelves[s].reserved_for_empty),
                stack.shelves)

priority_shelves(stack) ==
    SortByLevel(SelectSeq(Indices(stack.shelves),
                          LAMBDA s : stack.shelves[s].level >= PriorityMinLevel
                                     /\ ~stack.shelves[s].reserved_for_empty),
                stack.shelves)
empty_shelves(stack) ==
    SelectSeq(Indices(stack.shelves), LAMBDA s : stack.shelves[s].reserved_for_empty)

tier_shelves(stack, type) ==
    IF type = "regular" THEN regular_shelves(stack)
    ELSE IF type = "priority" THEN priority_shelves(stack)
    ELSE empty_shelves(stack)

\* the loop `for shelf in ...: if shelf.add_container(container): ... break`
\* over the shelf indices idx of stack k from position i on;
\* at = index of the shelf that took the container, 0 if none did
RECURSIVE TryShelves(_, _, _, _, _)
TryShelves(w, k, idx, i, id) ==
    IF i > Len(idx) THEN [w |-> w, at |-> 0]
    ELSE TheOne({ IF r.ret THEN [w |-> r.w, at |-> idx[i]]
                  ELSE TryShelves(r.w, k, idx, i + 1, id) :
                  r \in {add_container(w, k, idx[i], id)} })

\* StorageStack.get_empty_shelf: index of the topmost reserved shelf, 0 = None
RECURSIVE get_empty_shelf_from(_, _)
get_empty_shelf_from(stack, i) ==
    IF i = 0 THEN 0
    ELSE IF stack.shelves[i].reserved_for_empty THEN i
    ELSE get_empty_shelf_from(stack, i - 1)

get_empty_shelf(stack) == get_empty_shelf_from(stack, Len(stack.shelves))

\* the scan `for shelf in self.shelves: if container in shelf.containers`
RECURSIVE find_current_shelf(_, _, _)
find_current_shelf(stack, i, id) ==
    IF i > Len(stack.shelves) THEN 0
    ELSE IF id \in Range(stack.shelves[i].containers) THEN i
    ELSE find_current_shelf(stack, i + 1, id)

\* mark_container_empty without the `if container.is_empty: return` guard
mark_container_empty_unguarded(w, k, id) ==
         LET current_shelf == find_current_shelf(w.stacks[k], 1, id)
         IN  IF current_shelf = 0 THEN w
             ELSE TheOne({
               LET w2 == [stacks |-> [w1.stacks EXCEPT ![k].empty_buffer = Append(@, id)],
                          containers |-> [w1.containers EXCEPT
                                            ![id].is_empty = TRUE,
                                            ![id].content = "",
                                            ![id].priority_parts = FALSE]]
                   empty_shelf == get_empty_shelf(w2.stacks[k])
               IN  IF empty_shelf # 0
                      /\ can_add_container(w2.stacks[k].shelves[empty_shelf],
                                           w2.containers[id], w2.containers)
                   THEN LET w3 == add_container(w2, k, empty_shelf, id).w
                        IN  [w3 EXCEPT
                               !.stacks[k].empty_buffer = RemoveFirst(@, id),
                               !.stacks[k].history = Append(@,
                                  [action |-> "move_to_buffer",
                                   container |-> w.containers[id].name,
                                   from_level |-> w.stacks[k].shelves[current_shelf].level,
                                   to_level |-> w.stacks[k].shelves[empty_shelf].level])]
                   ELSE w2 :
               w1 \in {remove_container(w, k, current_shelf, id).w} })

\* StorageStack.mark_container_empty (history records without the timestamp)
mark_container_empty(w, k, id) ==
    IF w.containers[id].is_empty THEN w
    ELSE LET current_shelf == find_current_shelf(w.stacks[k], 1, id)
         IN  IF current_shelf = 0 THEN w
             ELSE TheOne({
               LET w2 == [stacks |-> [w1.stacks EXCEPT ![k].empty_buffer = Append(@, id)],
                          containers |-> [w1.containers EXCEPT
                                            ![id].is_empty = TRUE,
                                            ![id].content = "",
                                            ![id].priority_parts = FALSE]]
                   empty_shelf == get_empty_shelf(w2.stacks[k])
               IN  IF empty_shelf # 0
                      /\ can_add_container(w2.stacks[k].shelves[empty_shelf],
                                           w2.containers[id], w2.containers)
                   THEN LET w3 == add_container(w2, k, empty_shelf, id).w
                        IN  [w3 EXCEPT
                               !.stacks[k].empty_buffer = RemoveFirst(@, id),
                               !.stacks[k].history = Append(@,
                                  [action |-> "move_to_buffer",
                                   container |-> w.containers[id].name,
                                   from_level |-> w.stacks[k].shelves[current_shelf].level,
                                   to_level |-> w.stacks[k].shelves[empty_shelf].level])]
                   ELSE w2 :
               w1 \in {remove_container(w, k, current_shelf, id).w} })

\* the order in which both organize_containers and distribute_containers
\* work through their input: the regular loop, then the priority loop, then
\* the empty loop, as one list of [id, type]
Tagged(ids, type) == [i \in 1..Len(ids) |-> [id |-> ids[i], type |-> type]]

Attempts(input, cs) ==
    Tagged(regular_containers(input, cs), "regular")
    \o Tagged(priority_containers(input, cs), "priority")
    \o Tagged(empty_containers(input, cs), "empty")

\* the three loops of StorageStack.organize_containers, from attempt i on
RECURSIVE organize_loop(_, _, _, _, _)
organize_loop(w, k, list, i, log) ==
    IF i > Len(list) THEN [w |-> w, log |-> log]
    ELSE TheOne({
      LET id == list[i].id
          type == list[i].type
          c  == r.w.containers[id]
          wn == IF r.at # 0 /\ type = "empty"
                THEN [r.w EXCEPT !.stacks[k].empty_buffer = Append(@, id)]
                ELSE r.w
          entry == IF r.at # 0
                   THEN [container |-> c.name, status |-> "placed",
                         level |-> r.w.stacks[k].shelves[r.at].level,
                         type |-> type, weight |-> c.weight]
                   ELSE IF type = "priority"
                   THEN [container |-> c.name, status |-> "not_placed",
                         type |-> type, weight |-> c.weight,
                         reason |-> "no shelves at level 3+ for priority containers"]
                   ELSE [container |-> c.name, status |-> "not_placed",
                         type |-> type, weight |-> c.weight]
      IN  organize_loop(wn, k, list, i + 1, Append(log, entry)) :
      r \in {TryShelves(w, k, tier_shelves(w.stacks[k], list[i].type), 1, list[i].id)} })

\* StorageStack.organize_containers: [w, log]
organize_containers(w, k, input) ==
    TheOne({ organize_loop(w, k, list, 1, <<>>) :
             list \in {Attempts(input, w.containers)} })

(* ---- Warehouse ---------------------------------------------------------- *)
\* the loop `for stack in self.stacks` of one container: first stack, from
\* stack k on, one of whose tier shelves takes the container (k = 0: none)
RECURSIVE TryStacks(_, _, _, _)
TryStacks(w, k, id, type) ==
    IF k > Len(w.stacks) THEN [w |-> w, k |-> 0, at |-> 0]
    ELSE TheOne({ IF r.at # 0 THEN [w |-> r.w, k |-> k, at |-> r.at]
                  ELSE TryStacks(r.w, k + 1, id, type) :
                  r \in {TryShelves(w, k, tier_shelves(w.stacks[k], type), 1, id)} })

\* placement_stats['by_stack'][stack.name] += 1, creating the key at 0
bump(by_stack, name) ==
    [n \in DOMAIN by_stack \cup {name} |->
        IF n = name
        THEN (IF n \in DOMAIN by_stack THEN by_stack[n] ELSE 0) + 1
        ELSE by_stack[n]]

\* the three loops of Warehouse.distribute_containers, from attempt i on
RECURSIVE distribute_loop(_, _, _, _, _)
distribute_loop(w, list, i, stats, unplaced) ==
    IF i > Len(list) THEN [w |-> w, stats |-> stats, unplaced |-> unplaced]
    ELSE TheOne({
      LET id == list[i].id
          type == list[i].type
      IN  IF r.k # 0
          THEN distribute_loop(r.w, list, i + 1,
                 [stats EXCEPT
                    !.placed = @ + 1,
                    !.by_type[type] = @ + 1,
                    !.by_stack = bump(@, r.w.stacks[r.k].name),
                    !.placement_log = Append(@,
                        [container |-> r.w.containers[id].name,
                         stack |-> r.w.stacks[r.k].name,
                         shelf |-> r.w.stacks[r.k].shelves[r.at].level,
                         type |-> type])],
                 unplaced)
          ELSE distribute_loop(r.w, list, i + 1,
                 [stats EXCEPT !.not_placed = @ + 1],
                 Append(unplaced, id)) :
      r \in {TryStacks(w, 1, list[i].id, list[i].type)} })

\* the placement_stats dictionary at the start of a call
placement_stats(input) ==
    [total_containers |-> Len(input), placed |-> 0, not_placed |-> 0,
     by_stack |-> <<>>,
     by_type |-> [regular |-> 0, priority |-> 0, empty |-> 0],
     placement_log |-> <<>>]

\* distribute_containers that appends to the unplaced list it finds
distribute_containers_keeps_unplaced(w, input) ==
    TheOne({ distribute_loop(w, list, 1, placement_stats(input), unplaced_containers) :
             list \in {Attempts(input, w.containers)} })

\* distribute_containers that passes over the containers a stack tracks in
\* its empty_buffer
distribute_containers_skips_tracked(w, input) ==
    TheOne({ distribute_loop(w, list, 1, placement_stats(input), <<>>) :
             list \in {Attempts(SelectSeq(input, LAMBDA id :
                                     \A k \in DOMAIN w.stacks :
                                         id \notin Range(w.stacks[k].empty_buffer)),
                                 w.containers)} })

\* Warehouse.distribute_containers: [w, stats, unplaced]
distribute_containers(w, input) ==
    TheOne({ distribute_loop(w, list, 1, placement_stats(input), <<>>) :
             list \in {Attempts(input, w.containers)} })

(* ---- post distributor ------------------------------------------------------ *)
(* distribute_post_containers_by_material works on a Post and a list of     *)
(* stacks.  The ids and materials of a post's containers are strings the   *)
(* function splits, joins and compares: they are sequences of character     *)
(* codes.  A dict is the sequence of its entries in insertion order.        *)

\* ord('_'), the separator of container.id.split('_')
Underscore == 95
\* ord('|'), the separator of the group key f"{article}|{material}"
Bar == 124
\* the string "unknown" of `container.material or "unknown"`
Unknown == <<117, 110, 107, 110, 111, 119, 110>>

\* a container of a post: Container(...) with its material set
PostContainer(id, name, weight, length, width, height, material) ==
    ("material" :> material)
        @@ Container(id, name, weight, length, width, height, FALSE, FALSE, "")

\* Post(post_number, containers) after calculate_requirements has set
\* optimal_shelf_height
Post(post_number, ids, optimal_shelf_height) ==
    [post_number |-> post_number, containers |-> ids,
     optimal_shelf_height |-> optimal_shelf_height]

\* container.id.split('_')[0] if '_' in container.id else container.id
RECURSIVE split_first(_, _)
split_first(id, i) ==
    IF i > Len(id) THEN id
    ELSE IF id[i] = Underscore THEN SubSeq(id, 1, i - 1)
    ELSE split_first(id, i + 1)

article_of(c) == split_first(c.id, 1)

\* container.material or "unknown" (None and "" are both <<>>)
material_of(c) == IF c.material = <<>> THEN Unknown ELSE c.material

group_key(article, material) == article \o <<Bar>> \o material

\* position of the entry of dict `groups` with key `key`, 0 if there is none
key_index(groups, key) ==
    IF \E j \in 1..Len(groups) : groups[j].key = key
    THEN CHOOSE j \in 1..Len(groups) : groups[j].key = key
    ELSE 0

\* the loop that builds `groups`, from container i of the post on.  Each
\* round ends in `groups[group_key].append(container)`; groups[group_key]
\* is the dict {'article', 'material', 'containers'}, and a dict has no
\* append: the statement raises AttributeError, in the first round.
group_loop(cs, ids, i, groups) ==
    IF i > Len(ids) THEN [raised |-> FALSE, groups |-> groups]
    ELSE LET c == cs[ids[i]]
             key == group_key(article_of(c), material_of(c))
         IN  [raised |-> TRUE,
              groups |-> IF key_index(groups, key) # 0 THEN groups
                         ELSE Append(groups, [key |-> key,
                                              article |-> article_of(c),
                                              material |-> material_of(c),
                                              containers |-> <<>>])]

\* a < b for strings (sequences of character codes)
RECURSIVE str_less(_, _)
str_less(a, b) ==
    IF b = <<>> THEN FALSE
    ELSE IF a = <<>> THEN TRUE
    ELSE IF Head(a) # Head(b) THEN Head(a) < Head(b)
    ELSE str_less(Tail(a), Tail(b))

\* sum(c.weight for c in group['containers'])
group_weight(group, cs) ==
    SumSeq([i \in 1..Len(group.containers) |-> cs[group.containers[i]].weight])

\* sorted(groups.items(), key=lambda x: (article, -total weight)): ascending
\* and stable
sorted_groups(groups, cs) ==
    LET before(a, b) ==
            \/ str_less(a.article, b.article)
            \/ a.article = b.article /\ group_weight(a, cs) > group_weight(b, cs)
        rank(i) ==
            Cardinality({j \in 1..Len(groups) :
                            \/ before(groups[j], groups[i])
                            \/ ~before(groups[i], groups[j]) /\ j < i}) + 1
    IN  [r \in 1..Len(groups) |-> groups[CHOOSE i \in 1..Len(groups) : rank(i) = r]]

\* [s for s in stack.shelves if not s.reserved_for_empty], as shelf indices
available_shelves(stack) ==
    SelectSeq(Indices(stack.shelves), LAMBDA s : ~stack.shelves[s].reserved_for_empty)

\* d[key] = value on a dict
dict_set(d, key, value) ==
    [n \in DOMAIN d \cup {key} |-> IF n = key THEN value ELSE d[n]]

(* The placement loop threads a record st: the world w, placement_stats,   *)
(* group_stats of the group at hand, current_stack_idx (csi, counted from  *)
(* 0 as in the code) and current_shelf_in_stack (cur, by stack name).      *)
(* `sl` is the list `stacks` as indices of w.stacks, g the group at hand.  *)

\* the statements run inside `if shelf.can_add_container(container):` for
\* shelf s of stack k, the update of current_shelf_in_stack excepted
put(st, k, s, id, g, post) ==
    LET stack == st.w.stacks[k]
        shelf == stack.shelves[s]
        c == st.w.containers[id]
        w2 == add_container(st.w, k, s, id).w
        info == [stack |-> stack.name, shelf |-> shelf.level, x |-> 0,
                 y |-> shelf.level * post.optimal_shelf_height]
    IN  [st EXCEPT
           !.w = [w2 EXCEPT !.containers[id] = ("placement_info" :> info) @@ @],
           !.stats.placed_containers = @ + 1,
           !.group_stats.placed = @ + 1,
           !.stats.by_stack = bump(@, stack.name),
           !.stats.by_article = bump(@, g.article),
           !.stats.placement_log = Append(@,
               [container |-> c.name, article |-> g.article,
                material |-> g.material, stack |-> stack.name,
                shelf |-> shelf.level, weight |-> c.weight])]

\* `if current_stack_idx < len(stacks):` with its loop over the shelves from
\* the current one on and the retry on the next shelf: [st, placed]
try_current(st, sl, id, g, post) ==
    IF st.csi < Len(sl)
    THEN LET k == sl[st.csi + 1]
             name == st.w.stacks[k].name
             avail == available_shelves(st.w.stacks[k])
             fits == {j \in st.cur[name]..(Len(avail) - 1) :
                         can_add_container(st.w.stacks[k].shelves[avail[j + 1]],
                                           st.w.containers[id], st.w.containers)}
         IN  IF fits # {}
             THEN LET j == CHOOSE x \in fits : \A y \in fits : x <= y
                  IN  [st |-> [put(st, k, avail[j + 1], id, g, post) EXCEPT !.cur[name] = j],
                       placed |-> TRUE]
             ELSE IF st.cur[name] < Len(avail) - 1
             THEN LET st1 == [st EXCEPT !.cur[name] = @ + 1]
                      s == avail[st1.cur[name] + 1]
                  IN  IF can_add_container(st.w.stacks[k].shelves[s],
                                           st.w.containers[id], st.w.containers)
                      THEN [st |-> put(st1, k, s, id, g, post), placed |-> TRUE]
                      ELSE [st |-> st1, placed |-> FALSE]
             ELSE [st |-> st, placed |-> FALSE]
    ELSE [st |-> st, placed |-> FALSE]

\* the first `if not placed:`: on to the next stack and its first shelf
try_next(st, sl, id, g, post) ==
    LET st1 == [st EXCEPT !.csi = @ + 1]
    IN  IF st1.csi < Len(sl)
        THEN LET k == sl[st1.csi + 1]
                 st2 == [st1 EXCEPT !.cur[st.w.stacks[k].name] = 0]
                 avail == available_shelves(st.w.stacks[k])
             IN  IF avail # <<>>
                    /\ can_add_container(st.w.stacks[k].shelves[avail[1]],
                                         st.w.containers[id], st.w.containers)
                 THEN [st |-> put(st2, k, avail[1], id, g, post), placed |-> TRUE]
                 ELSE [st |-> st2, placed |-> FALSE]
        ELSE [st |-> st1, placed |-> FALSE]

\* one round of `for container in containers_list`
place_container(st, sl, id, g, post) ==
    TheOne({ IF r1.placed THEN r1.st
             ELSE TheOne({ IF r2.placed THEN r2.st
                           ELSE [r2.st EXCEPT !.stats.unplaced_containers = @ + 1,
                                              !.group_stats.not_placed = @ + 1] :
                           r2 \in {try_next(r1.st, sl, id, g, post)} }) :
             r1 \in {try_current(st, sl, id, g, post)} })

RECURSIVE place_list(_, _, _, _, _, _)
place_list(st, sl, list, i, g, post) ==
    IF i > Len(list) THEN st
    ELSE TheOne({ place_list(st1, sl, list, i + 1, g, post) :
                  st1 \in {place_container(st, sl, list[i], g, post)} })

\* `for group_key, group_data in sorted_groups`, from group gi on
RECURSIVE place_groups(_, _, _, _, _)
place_groups(st, sl, groups, gi, post) ==
    IF gi > Len(groups) THEN st
    ELSE TheOne({ place_groups(
                     [st1 EXCEPT !.stats.by_material =
                         dict_set(@, groups[gi].article \o <<Underscore>> \o groups[gi].material,
                                  st1.group_stats)],
                     sl, groups, gi + 1, post) :
                  st1 \in {place_list([st EXCEPT !.group_stats = [placed |-> 0, not_placed |-> 0]],
                                      sl,
                                      SortByWeightDesc(groups[gi].containers, st.w.containers),
                                      1, groups[gi], post)} })

\* the placement_stats dictionary of the post distributor at its creation
post_placement_stats(post) ==
    [total_containers |-> Len(post.containers), placed_containers |-> 0,
     unplaced_containers |-> 0, by_material |-> <<>>, by_stack |-> <<>>,
     by_article |-> <<>>, placement_log |-> <<>>]

\* distribute_post_containers_by_material(post, stacks): [raised, w, stats];
\* raised = TRUE stands for the AttributeError that leaves the function,
\* and then there is no statistics object
distribute_post_containers_by_material(w, post, sl) ==
    TheOne({ IF gr.raised THEN [raised |-> TRUE, w |-> w]
             ELSE TheOne({ [raised |-> FALSE, w |-> st.w, stats |-> st.stats] :
                           st \in {place_groups(
                                      [w |-> w,
                                       stats |-> post_placement_stats(post),
                                       group_stats |-> [placed |-> 0, not_placed |-> 0],
                                       csi |-> 0,
                                       cur |-> [n \in {w.stacks[sl[i]].name : i \in 1..Len(sl)} |-> 0]],
                                      sl, sorted_groups(gr.groups, w.containers), 1, post)} }) :
             gr \in {group_loop(w.containers, post.containers, 1, <<>>)} })

(* ---- topologies and container sets ---------------------------------------- *)
(* Each scenario is a warehouse built with StorageStack(...) and add_shelf   *)
(* plus the containers created for it.                                       *)

\* two stacks of one shelf with max_weight 50; two regular containers of
\* weight 40 and a priority container too long for the shelves
ScenarioD ==
    [name |-> "D",
     stacks |-> << add_shelf(StorageStack("S1", 200, 120), 50, 50, FALSE),
                   add_shelf(StorageStack("S2", 200, 120), 50, 50, FALSE) >>,
     containers |-> << Container("T1", "t1", 40, 60, 40, 45, FALSE, FALSE, "metal"),
                       Container("T2", "t2", 40, 60, 40, 45, FALSE, FALSE, "parts"),
                       Container("T3", "t3", 10, 195, 40, 45, FALSE, TRUE, "bars") >>]

\* one stack of four shelves, level 1 too low for the containers, level 3
\* reserved for empties; a shelf has room for two rows of two containers
ScenarioT ==
    [name |-> "T",
     stacks |-> << add_shelf(add_shelf(add_shelf(add_shelf(
                       StorageStack("S1", 100, 100), 120, 50, FALSE),
                       120, 20, FALSE), 120, 50, FALSE), 120, 50, TRUE) >>,
     containers |-> << Container("T1", "t1", 80, 40, 40, 30, FALSE, FALSE, "metal"),
                       Container("T2", "t2", 30, 40, 40, 30, FALSE, TRUE, "order"),
                       Container("T3", "t3", 5, 40, 40, 30, TRUE, FALSE, "") >>]

Scenarios == {ScenarioD, ScenarioT}

\* one stack of a regular shelf and a reserved shelf that carries one of
\* the two containers but not both; R1 is regular stock, R2 an empty
ScenarioR ==
    [name |-> "R",
     stacks |-> << add_shelf(add_shelf(
                       StorageStack("S1", 100, 100), 120, 50, FALSE), 10, 50, TRUE) >>,
     containers |-> << Container("R1", "r1", 8, 40, 40, 30, FALSE, FALSE, "metal"),
                       Container("R2", "r2", 8, 40, 40, 30, TRUE, FALSE, "") >>]

(* ---- state machine --------------------------------------------------------- *)
Ids == DOMAIN containers
StackIdx == DOMAIN stacks
ShelfIdx(k) == DOMAIN stacks[k].shelves
Inputs == DistinctSeqs(Ids)

World == [stacks |-> stacks, containers |-> containers]

AllShelvesEmpty ==
    \A k \in StackIdx : \A s \in ShelfIdx(k) : stacks[k].shelves[s].containers = <<>>

Init ==
    \E sc \in Scenarios :
        /\ scenario = sc.name
        /\ containers = sc.containers
        /\ stacks = sc.stacks
        /\ unplaced_containers = <<>>
        /\ last = [op |-> "init"]
        /\ calls = 0

\* a post of the groups A|steel (three containers) and B|plastic (two) and
\* one stack of two shelves; a shelf has room for two of the containers
\* side by side and for no second row.  The ids read "A_1" .. "B_2".
ScenarioE ==
    [name |-> "E",
     post_number |-> "P1",
     optimal_shelf_height |-> 50,
     stacks |-> << add_shelf(add_shelf(
                       StorageStack("S1", 100, 100), 500, 50, FALSE), 500, 50, FALSE) >>,
     containers |-> << PostContainer(<<65, 95, 49>>, "a1", 30, 40, 90, 30, <<115, 116, 101, 101, 108>>),
                       PostContainer(<<65, 95, 50>>, "a2", 20, 40, 90, 30, <<115, 116, 101, 101, 108>>),
                       PostContainer(<<65, 95, 51>>, "a3", 10, 40, 90, 30, <<115, 116, 101, 101, 108>>),
                       PostContainer(<<66, 95, 49>>, "b1", 20, 40, 90, 30, <<112, 108, 97, 115, 116, 105, 99>>),
                       PostContainer(<<66, 95, 50>>, "b2", 10, 40, 90, 30, <<112, 108, 97, 115, 116, 105, 99>>) >>]

\* the stacks and the containers of scenario E as built
InitE ==
    /\ scenario = ScenarioE.name
    /\ containers = ScenarioE.containers
    /\ stacks = ScenarioE.stacks
    /\ unplaced_containers = <<>>
    /\ last = [op |-> "init"]
    /\ calls = 0

\* one stack of one regular shelf 200 x 120 x 50 with max_weight 500; three
\* containers 60 x 40 x 45 of weight 80 and a flat one, 100 x 100 x 10, of
\* weight 10
ScenarioA ==
    [name |-> "A",
     stacks |-> << add_shelf(StorageStack("S1", 200, 120), 500, 50, FALSE) >>,
     containers |-> << Container("A1", "a1", 80, 60, 40, 45, FALSE, FALSE, "parts"),
                       Container("A2", "a2", 80, 60, 40, 45, FALSE, FALSE, "parts"),
                       Container("A3", "a3", 80, 60, 40, 45, FALSE, FALSE, "parts"),
                       Container("A4", "a4", 10, 100, 100, 10, FALSE, FALSE, "sheet") >>]

\* the shelf and the containers of scenario A as built
InitA ==
    /\ scenario = ScenarioA.name
    /\ containers = ScenarioA.containers
    /\ stacks = ScenarioA.stacks
    /\ unplaced_containers = <<>>
    /\ last = [op |-> "init"]
    /\ calls = 0

\* one stack 100 x 100 of two regular shelves with max_weight 50 each and
\* three regular containers 30 x 30 x 30 of weights 30, 30 and 20
ScenarioH ==
    [name |-> "H",
     stacks |-> << add_shelf(add_shelf(StorageStack("S1", 100, 100), 50, 50, FALSE),
                             50, 50, FALSE) >>,
     containers |-> << Container("H1", "h1", 30, 30, 30, 30, FALSE, FALSE, "parts"),
                       Container("H2", "h2", 30, 30, 30, 30, FALSE, FALSE, "parts"),
                       Container("H3", "h3", 20, 30, 30, 30, FALSE, FALSE, "parts") >>]

\* the stack and the containers of scenario H as built
InitH ==
    /\ scenario = ScenarioH.name
    /\ containers = ScenarioH.containers
    /\ stacks = ScenarioH.stacks
    /\ unplaced_containers = <<>>
    /\ last = [op |-> "init"]
    /\ calls = 0

\* one stack 100 x 100 of one regular shelf and four low containers: two
\* narrow ones, 45 x 10 and 40 x 10, and two wide ones, 40 x 45 each
ScenarioP ==
    [name |-> "P",
     stacks |-> << add_shelf(StorageStack("S1", 100, 100), 500, 50, FALSE) >>,
     containers |-> << Container("P1", "p1", 10, 45, 10, 10, FALSE, FALSE, "parts"),
                       Container("P2", "p2", 10, 40, 10, 10, FALSE, FALSE, "parts"),
                       Container("P3", "p3", 10, 40, 45, 10, FALSE, FALSE, "parts"),
                       Container("P4", "p4", 10, 40, 45, 10, FALSE, FALSE, "parts") >>]

\* the shelf and the containers of scenario P as built
InitP ==
    /\ scenario = ScenarioP.name
    /\ containers = ScenarioP.containers
    /\ stacks = ScenarioP.stacks
    /\ unplaced_containers = <<>>
    /\ last = [op |-> "init"]
    /\ calls = 0

\* two stacks 100 x 100: S1 of one regular shelf that carries one heavy
\* container, S2 of four shelves with level 1 too low and level 3 reserved
\* for empties; one regular container, one priority container, and one
\* container that is flagged both empty and priority
ScenarioS ==
    [name |-> "S",
     stacks |-> << add_shelf(StorageStack("S1", 100, 100), 80, 50, FALSE),
                   add_shelf(add_shelf(add_shelf(add_shelf(
                       StorageStack("S2", 100, 100), 120, 50, FALSE),
                       120, 20, FALSE), 120, 50, FALSE), 120, 50, TRUE) >>,
     containers |-> << Container("C1", "c1", 80, 40, 40, 30, FALSE, FALSE, "metal"),
                       Container("C2", "c2", 30, 40, 40, 30, FALSE, TRUE, "order"),
                       Container("C3", "c3", 5, 40, 40, 30, TRUE, TRUE, "") >>]

\* the warehouse of scenario S as built
InitS ==
    /\ scenario = ScenarioS.name
    /\ containers = ScenarioS.containers
    /\ stacks = ScenarioS.stacks
    /\ unplaced_containers = <<>>
    /\ last = [op |-> "init"]
    /\ calls = 0

\* scenario L: one stack under construction, in either program, with the
\* base sizes and the shelf parameters the calls draw from
CalcL == "L/storage_calculator"
BaseSizes == {<<100, 100>>, <<200, 120>>}
ShelfMaxWeights == {50, 120}
ShelfHeights == {20, 50}

\* a stack as its constructor leaves it: no shelves yet
InitL ==
    /\ scenario \in {"L", CalcL}
    /\ containers = <<>>
    /\ \E b \in BaseSizes :
          stacks = << IF scenario = "L" THEN StorageStack("S1", b[1], b[2])
                                       ELSE CalcStorageStack("S1", b[1], b[2]) >>
    /\ unplaced_containers = <<>>
    /\ last = [op |-> "init"]
    /\ calls = 0

\* the warehouse of scenario R as built
InitR ==
    /\ scenario = ScenarioR.name
    /\ containers = ScenarioR.containers
    /\ stacks = ScenarioR.stacks
    /\ unplaced_containers = <<>>
    /\ last = [op |-> "init"]
    /\ calls = 0

\* every call counts against the length of the run
Call ==
    /\ calls < (CASE scenario = "R" -> MaxCallsR
                   [] scenario \in {"A", "A/storage_calculator"} -> MaxCallsA
                   [] scenario = "P" -> MaxCallsP
                   [] scenario \in {"L", "L/storage_calculator"} -> MaxShelves
                   [] OTHER -> MaxCalls)
    /\ calls' = calls + 1

\* a can_add_container call that leaves the candidate on the shelf it accepts
CanAddContainerKeeps(k, s, id) ==
    \E r \in {add_container(World, k, s, id)} :
        /\ stacks' = r.w.stacks
        /\ containers' = r.w.containers
        /\ last' = [op |-> "can_add_container", k |-> k, s |-> s, c |-> id, ret |-> r.ret]
        /\ UNCHANGED <<scenario, unplaced_containers>>

\* a call of Shelf.can_add_container
CanAddContainer(k, s, id) ==
    /\ last' = [op |-> "can_add_container", k |-> k, s |-> s, c |-> id,
                ret |-> can_add_container(stacks[k].shelves[s], containers[id], containers)]
    /\ UNCHANGED <<scenario, containers, stacks, unplaced_containers>>

\* a call of Shelf.add_container
AddContainer(k, s, id) ==
    \E r \in {add_container(World, k, s, id)} :
        /\ stacks' = r.w.stacks
        /\ containers' = r.w.containers
        /\ last' = [op |-> "add_container", k |-> k, s |-> s, c |-> id, ret |-> r.ret]
        /\ UNCHANGED <<scenario, unplaced_containers>>

\* a call of Shelf.remove_container
RemoveContainer(k, s, id) ==
    \E r \in {remove_container(World, k, s, id)} :
        /\ stacks' = r.w.stacks
        /\ containers' = r.w.containers
        /\ last' = [op |-> "remove_container", k |-> k, s |-> s, c |-> id, ret |-> r.ret]
        /\ UNCHANGED <<scenario, unplaced_containers>>

\* a call of Shelf.can_add_container of the calculator
CalcCanAddContainer(k, s, id) ==
    /\ last' = [op |-> "can_add_container", k |-> k, s |-> s, c |-> id,
                ret |-> calc_can_add_container(stacks[k].shelves[s], containers[id],
                                               containers)]
    /\ UNCHANGED <<scenario, containers, stacks, unplaced_containers>>

\* a call of Shelf.add_container of the calculator
CalcAddContainer(k, s, id) ==
    \E r \in {calc_add_container(World, k, s, id)} :
        /\ stacks' = r.w.stacks
        /\ containers' = r.w.containers
        /\ last' = [op |-> "add_container", k |-> k, s |-> s, c |-> id, ret |-> r.ret]
        /\ UNCHANGED <<scenario, unplaced_containers>>

\* a call of StorageStack.add_shelf
AddShelf(k, max_weight, height, reserved_for_empty) ==
    /\ stacks' = [stacks EXCEPT ![k] = add_shelf(@, max_weight, height, reserved_for_empty)]
    /\ last' = [op |-> "add_shelf", k |-> k, max_weight |-> max_weight,
                height |-> height, reserved_for_empty |-> reserved_for_empty]
    /\ UNCHANGED <<scenario, containers, unplaced_containers>>

\* a call of StorageStack.add_shelf of the calculator
CalcAddShelf(k, max_weight, height, reserved_for_empty) ==
    /\ stacks' = [stacks EXCEPT ![k] = calc_add_shelf(@, max_weight, height,
                                                      reserved_for_empty)]
    /\ last' = [op |-> "add_shelf", k |-> k, max_weight |-> max_weight,
                height |-> height, reserved_for_empty |-> reserved_for_empty]
    /\ UNCHANGED <<scenario, containers, unplaced_containers>>

\* a call of StorageStack.mark_container_empty
MarkContainerEmpty(k, id) ==
    \E w \in {mark_container_empty(World, k, id)} :
        /\ stacks' = w.stacks
        /\ containers' = w.containers
        /\ last' = [op |-> "mark_container_empty", k |-> k, c |-> id]
        /\ UNCHANGED <<scenario, unplaced_containers>>

\* a call of StorageStack.organize_containers
OrganizeContainers(k, input) ==
    \E r \in {organize_containers(World, k, input)} :
        /\ stacks' = r.w.stacks
        /\ containers' = r.w.containers
        /\ last' = [op |-> "organize_containers", k |-> k, input |-> input, ret |-> r.log]
        /\ UNCHANGED <<scenario, unplaced_containers>>

\* a call of Warehouse.distribute_containers; `fresh` notes that the caller
\* had cleared every shelf before the call
DistributeContainers(input) ==
    \E r \in {distribute_containers(World, input)} :
        /\ stacks' = r.w.stacks
        /\ containers' = r.w.containers
        /\ unplaced_containers' = r.unplaced
        /\ last' = [op |-> "distribute_containers", input |-> input,
                    fresh |-> AllShelvesEmpty, ret |-> r.stats]
        /\ UNCHANGED scenario

\* a call of distribute_post_containers_by_material with a post of the
\* containers `ids` and the stack list `sl`; ret is the statistics object,
\* or the name of the error that left the function
DistributePostContainersByMaterial(ids, sl) ==
    \E r \in {distribute_post_containers_by_material(
                  World, Post(ScenarioE.post_number, ids, ScenarioE.optimal_shelf_height), sl)} :
        /\ stacks' = r.w.stacks
        /\ containers' = r.w.containers
        /\ last' = [op |-> "distribute_post_containers_by_material",
                    post |-> ids, stacks |-> sl, raised |-> r.raised,
                    ret |-> IF r.raised THEN "AttributeError" ELSE r.stats]
        /\ UNCHANGED <<scenario, unplaced_containers>>

Next ==
    \/ \E k \in StackIdx : \E s \in ShelfIdx(k) : \E id \in Ids : Call /\ CanAddContainer(k, s, id)
    \/ \E k \in StackIdx : \E s \in ShelfIdx(k) : \E id \in Ids : Call /\ AddContainer(k, s, id)
    \/ \E k \in StackIdx : \E s \in ShelfIdx(k) : \E id \in Ids : Call /\ RemoveContainer(k, s, id)
    \/ \E k \in StackIdx : \E id \in Ids : Call /\ MarkContainerEmpty(k, id)
    \/ \E k \in StackIdx : \E input \in Inputs : Call /\ OrganizeContainers(k, input)
    \/ \E input \in Inputs : Call /\ DistributeContainers(input)

Spec == Init /\ [][Next]_vars

\* the runs on the stack of scenario R
SpecR == InitR /\ [][Next]_vars

\* the runs on the warehouse of scenario S: distribute_containers calls
\* between direct add_container and mark_container_empty calls
NextS ==
    \/ \E k \in StackIdx : \E s \in ShelfIdx(k) : \E id \in Ids : Call /\ AddContainer(k, s, id)
    \/ \E k \in StackIdx : \E id \in Ids : Call /\ MarkContainerEmpty(k, id)
    \/ \E input \in Inputs : Call /\ DistributeContainers(input)

SpecS == InitS /\ [][NextS]_vars

\* the runs made of calls on the shelf of scenario A
NextShelf ==
    \/ \E k \in StackIdx : \E s \in ShelfIdx(k) : \E id \in Ids : Call /\ CanAddContainer(k, s, id)
    \/ \E k \in StackIdx : \E s \in ShelfIdx(k) : \E id \in Ids : Call /\ AddContainer(k, s, id)
    \/ \E k \in StackIdx : \E s \in ShelfIdx(k) : \E id \in Ids : Call /\ RemoveContainer(k, s, id)

SpecA == InitA /\ [][NextShelf]_vars

\* the same calls on the shelf of scenario P
SpecP == InitP /\ [][NextShelf]_vars

\* scenario A in either program: the engine of src/app.py ("A") or the
\* console calculator ("A/storage_calculator"); a run stays in its program
CalcA == "A/storage_calculator"

InitB ==
    /\ scenario \in {ScenarioA.name, CalcA}
    /\ containers = ScenarioA.containers
    /\ stacks = ScenarioA.stacks
    /\ unplaced_containers = <<>>
    /\ last = [op |-> "init"]
    /\ calls = 0

NextCalc ==
    \/ \E k \in StackIdx : \E s \in ShelfIdx(k) : \E id \in Ids : Call /\ CalcCanAddContainer(k, s, id)
    \/ \E k \in StackIdx : \E s \in ShelfIdx(k) : \E id \in Ids : Call /\ CalcAddContainer(k, s, id)

NextB ==
    \/ scenario = ScenarioA.name /\ NextShelf
    \/ scenario = CalcA /\ NextCalc

SpecB == InitB /\ [][NextB]_vars

\* the construction of a stack, shelf by shelf, in either program
NextL ==
    \/ /\ scenario = "L"
       /\ \E k \in StackIdx : \E mw \in ShelfMaxWeights : \E h \in ShelfHeights :
             \E r \in BOOLEAN : Call /\ AddShelf(k, mw, h, r)
    \/ /\ scenario = CalcL
       /\ \E k \in StackIdx : \E mw \in ShelfMaxWeights : \E h \in ShelfHeights :
             \E r \in BOOLEAN : Call /\ CalcAddShelf(k, mw, h, r)

SpecL == InitL /\ [][NextL]_vars

\* the runs of the post distributor on scenario E: posts made of any of the
\* containers in any order, with any list of the stacks
StackLists == DistinctSeqs(StackIdx)

NextPost ==
    \E ids \in Inputs : \E sl \in StackLists :
        Call /\ DistributePostContainersByMaterial(ids, sl)

SpecPost == InitE /\ [][NextPost]_vars

\* the runs made of organize_containers and mark_container_empty calls only
NextStack ==
    \/ \E k \in StackIdx : \E id \in Ids : Call /\ MarkContainerEmpty(k, id)
    \/ \E k \in StackIdx : \E input \in Inputs : Call /\ OrganizeContainers(k, input)

SpecStack == Init /\ [][NextStack]_vars

\* the same calls on the stack of scenario H
SpecH == InitH /\ [][NextStack]_vars

(* ---- helpers of the properties ------------------------------------------- *)
\* number of times container id occurs in the container lists of all shelves
RECURSIVE OccShelves(_, _, _)
OccShelves(shelves, s, id) ==
    IF s > Len(shelves) THEN 0
    ELSE Count(shelves[s].containers, id) + OccShelves(shelves, s + 1, id)

RECURSIVE OccStacks(_, _, _)
OccStacks(stks, k, id) ==
    IF k > Len(stks) THEN 0
    ELSE OccShelves(stks[k].shelves, 1, id) + OccStacks(stks, k + 1, id)

Occurrences(stks, id) == OccStacks(stks, 1, id)

IsPriority(c) == c.priority_parts /\ ~c.is_empty

(* ---- C1 -------------------------------------------------------------------- *)
\* C1: exclusivity - every container is in at most one place of all the
\* shelves' container lists, and a container whose shelf_level is set is in
\* the list of a shelf of that level.
C1_Exclusivity ==
    \A id \in Ids :
        /\ Occurrences(stacks, id) <= 1
        /\ containers[id].shelf_level # {} =>
              \E k \in StackIdx : \E s \in ShelfIdx(k) :
                  /\ stacks[k].shelves[s].level \in containers[id].shelf_level
                  /\ id \in Range(stacks[k].shelves[s].containers)

(* ---- C2 -------------------------------------------------------------------- *)
\* C2: weight cap - on every shelf the weights of the containers on it sum
\* to at most the shelf's max_weight.
C2_WeightCap ==
    \A k \in StackIdx : \A s \in ShelfIdx(k) :
        current_weight(stacks[k].shelves[s], containers) <= stacks[k].shelves[s].max_weight

\* an add_container call was refused on a loaded shelf of the right kind
\* because the container would have taken the shelf over its max_weight
C2_Witness ==
    /\ last.op = "add_container"
    /\ ~last.ret
    /\ LET shelf == stacks[last.k].shelves[last.s]
           c == containers[last.c]
       IN  /\ shelf.containers # <<>>
           /\ shelf.reserved_for_empty = c.is_empty
           /\ current_weight(shelf, containers) + c.weight > shelf.max_weight

(* ---- C3 -------------------------------------------------------------------- *)
\* C3: reservation - a reserved shelf holds only empty containers and a
\* non-reserved shelf holds no empty container.
C3_Reservation ==
    \A k \in StackIdx : \A s \in ShelfIdx(k) :
        \A id \in Range(stacks[k].shelves[s].containers) :
            containers[id].is_empty = stacks[k].shelves[s].reserved_for_empty

(* ---- C4 -------------------------------------------------------------------- *)
\* the container got one more place on shelf s of stack k in this step
Gained(k, s, id) ==
    Count(stacks'[k].shelves[s].containers, id) > Count(stacks[k].shelves[s].containers, id)

\* C4: priority floor - organize_containers and distribute_containers put no
\* non-empty priority container on a shelf of level < 2, and a stack of fewer
\* than three shelves takes none of them (with only such stacks distribute
\* leaves each of them unplaced).
C4_PriorityFloor ==
    [][ last'.op \in {"organize_containers", "distribute_containers"} =>
          \A id \in Ids : IsPriority(containers[id]) =>
             /\ \A k \in StackIdx : \A s \in ShelfIdx(k) :
                   (stacks[k].shelves[s].level < 2 \/ Len(stacks[k].shelves) < 3)
                      => ~Gained(k, s, id)
             /\ ( /\ last'.op = "distribute_containers"
                  /\ id \in Range(last'.input)
                  /\ \A k \in StackIdx : Len(stacks[k].shelves) < 3 )
                   => id \in Range(unplaced_containers') ]_vars

\* organize_containers put a priority container on level 2 although level 0
\* would take it
C4_Witness ==
    /\ last.op = "organize_containers"
    /\ \E id \in Range(last.input) :
          /\ IsPriority(containers[id])
          /\ containers[id].shelf_level = {2}
          /\ id \in Range(stacks[last.k].shelves[3].containers)
          /\ can_add_container(stacks[last.k].shelves[1], containers[id], containers)

(* ---- C5 -------------------------------------------------------------------- *)
\* The row fill as the claim words it, by the number n of containers of the
\* shelf already replayed: Cursor(shelf, cs, n) = <<x, rowTop, rowMaxDepth>>.
RECURSIVE Cursor(_, _, _)
Cursor(shelf, cs, n) ==
    IF n = 0 THEN <<5, 5, 0>>
    ELSE LET prev == Cursor(shelf, cs, n - 1)
             item == cs[shelf.containers[n]]
         IN  IF prev[1] + item.length > shelf.length - 5
             THEN <<5 + item.length + 3, prev[2] + prev[3] + 3, item.width>>
             ELSE <<prev[1] + item.length + 3, prev[2],
                    IF item.width > prev[3] THEN item.width ELSE prev[3]>>

ReservationGate(shelf, c) == shelf.reserved_for_empty = c.is_empty
WeightGate(shelf, c, cs) == current_weight(shelf, cs) + c.weight <= shelf.max_weight
HeightGate(shelf, c) == c.height <= shelf.height
CandidateWraps(shelf, c, cs) ==
    Cursor(shelf, cs, Len(shelf.containers))[1] + c.length > shelf.length - 5
FitGate(shelf, c, cs) ==
    LET cur == Cursor(shelf, cs, Len(shelf.containers))
        x == IF CandidateWraps(shelf, c, cs) THEN 5 ELSE cur[1]
        rowTop == IF CandidateWraps(shelf, c, cs) THEN cur[2] + cur[3] + 3 ELSE cur[2]
    IN  rowTop + c.width <= shelf.width - 5 /\ x + c.length <= shelf.length - 5

\* C5: a can_add_container call returns true exactly when the reservation,
\* weight, height and row-fit gates all pass.
C5_FourGates ==
    last.op = "can_add_container" =>
        LET shelf == stacks[last.k].shelves[last.s]
            c == containers[last.c]
        IN  last.ret = ( /\ ReservationGate(shelf, c)
                         /\ WeightGate(shelf, c, containers)
                         /\ HeightGate(shelf, c)
                         /\ FitGate(shelf, c, containers) )

\* a can_add_container call said yes to a candidate that had to wrap into a
\* new row behind the containers already on the shelf
C5_Witness ==
    /\ last.op = "can_add_container"
    /\ last.ret
    /\ stacks[last.k].shelves[last.s].containers # <<>>
    /\ CandidateWraps(stacks[last.k].shelves[last.s], containers[last.c], containers)

(* ---- C6 -------------------------------------------------------------------- *)
\* C6: can_add_container is pure - a call changes no shelf, no container and
\* no other field of the warehouse, and a call that directly follows a call
\* with the same shelf and candidate returns the same result.
C6_Pure ==
    [][ last'.op = "can_add_container" =>
          /\ stacks' = stacks
          /\ containers' = containers
          /\ unplaced_containers' = unplaced_containers
          /\ ( /\ last.op = "can_add_container"
               /\ last.k = last'.k /\ last.s = last'.s /\ last.c = last'.c )
                => last'.ret = last.ret ]_vars

\* a can_add_container call accepted a candidate on a shelf that already
\* holds a container
C6_Witness ==
    /\ last.op = "can_add_container"
    /\ last.ret
    /\ calls >= 2
    /\ stacks[last.k].shelves[last.s].containers # <<>>

(* ---- C7 -------------------------------------------------------------------- *)
\* C7: add_container succeeds exactly when can_add_container holds; on
\* success the container becomes the last element of the shelf's list and
\* its shelf_level the shelf's level, nothing else changes; on failure
\* nothing changes.
C7_AddContainer ==
    [][ last'.op = "add_container" =>
          LET k == last'.k
              s == last'.s
              id == last'.c
              shelf == stacks[k].shelves[s]
          IN  /\ last'.ret = can_add_container(shelf, containers[id], containers)
              /\ last'.ret =>
                    /\ stacks'[k].shelves[s].containers = shelf.containers \o <<id>>
                    /\ containers'[id].shelf_level = {shelf.level}
                    /\ stacks' = [stacks EXCEPT ![k].shelves[s].containers =
                                                   stacks'[k].shelves[s].containers]
                    /\ containers' = [containers EXCEPT ![id].shelf_level =
                                                           containers'[id].shelf_level]
              /\ ~last'.ret => stacks' = stacks /\ containers' = containers
              /\ unplaced_containers' = unplaced_containers ]_vars

\* an add_container call put a container behind another one, on a shelf of
\* a level other than 0
C7_Witness ==
    /\ last.op = "add_container"
    /\ last.ret
    /\ LET shelf == stacks[last.k].shelves[last.s]
       IN  /\ Len(shelf.containers) >= 2
           /\ shelf.containers[Len(shelf.containers)] = last.c
           /\ shelf.containers[1] # last.c
           /\ shelf.level > 0
           /\ containers[last.c].shelf_level = {shelf.level}

(* ---- C8 -------------------------------------------------------------------- *)
\* C8: remove_container of a container in the shelf's list takes one entry
\* of the container out of the list, keeps the others in their order, clears
\* shelf_level and returns true; for a container not in the list it returns
\* false and changes nothing.
C8_RemoveContainer ==
    [][ last'.op = "remove_container" =>
          LET k == last'.k
              s == last'.s
              id == last'.c
              old == stacks[k].shelves[s].containers
              new == stacks'[k].shelves[s].containers
          IN  /\ last'.ret = (id \in Range(old))
              /\ last'.ret =>
                    /\ \E i \in 1..Len(old) :
                          /\ old[i] = id
                          /\ new = SubSeq(old, 1, i - 1) \o SubSeq(old, i + 1, Len(old))
                    /\ containers'[id].shelf_level = {}
                    /\ stacks' = [stacks EXCEPT ![k].shelves[s].containers = new]
                    /\ containers' = [containers EXCEPT ![id].shelf_level = {}]
              /\ ~last'.ret => stacks' = stacks /\ containers' = containers
              /\ unplaced_containers' = unplaced_containers ]_vars

\* a remove_container call took a container off a shelf that keeps another
\* container, and the container is on no shelf any more
C8_Witness ==
    /\ last.op = "remove_container"
    /\ last.ret
    /\ stacks[last.k].shelves[last.s].containers # <<>>
    /\ Occurrences(stacks, last.c) = 0
    /\ containers[last.c].shelf_level = {}

(* ---- C9 -------------------------------------------------------------------- *)
\* reading a placement_log entry back: container id, stack index, shelf index
IdOfName(name) == CHOOSE id \in Ids : containers[id].name = name
StackOfName(name) == CHOOSE k \in StackIdx : stacks[k].name = name
ShelfOfLevel(k, level) == CHOOSE s \in ShelfIdx(k) : stacks[k].shelves[s].level = level

\* the stacks as they were when the n-th entry of the log had been written:
\* the stacks before the call plus the first n placements of the log
RECURSIVE StacksAfter(_, _)
StacksAfter(log, n) ==
    IF n = 0 THEN stacks
    ELSE LET e == log[n]
             k == StackOfName(e.stack)
         IN  [StacksAfter(log, n - 1) EXCEPT
                ![k].shelves[ShelfOfLevel(k, e.shelf)].containers =
                    Append(@, IdOfName(e.container))]

\* the shelves a container of the given kind may go to, as the claim words
\* them: <<stack, shelf>> comes before <<k, s>> in the order of the search
EligibleShelf(k, s, c) ==
    IF c.is_empty THEN stacks[k].shelves[s].reserved_for_empty
    ELSE IF c.priority_parts
         THEN ~stacks[k].shelves[s].reserved_for_empty /\ stacks[k].shelves[s].level >= 2
         ELSE ~stacks[k].shelves[s].reserved_for_empty

Before(k1, s1, k2, s2) ==
    \/ k1 < k2
    \/ k1 = k2 /\ stacks[k1].shelves[s1].level < stacks[k2].shelves[s2].level

\* C9: distribute_containers is first-fit across stacks - every placement of
\* its log went to a shelf eligible for the container that accepted it at
\* that moment, and every eligible shelf earlier in the search (an earlier
\* stack, or a lower level of the same stack) rejected it at that moment;
\* in scenario D the two containers of weight 40 end one per stack with
\* nothing unplaced.
C9_FirstFit ==
    [][ last'.op = "distribute_containers" =>
          LET log == last'.ret.placement_log
          IN  /\ \A n \in 1..Len(log) :
                    LET id == IdOfName(log[n].container)
                        k == StackOfName(log[n].stack)
                        s == ShelfOfLevel(k, log[n].shelf)
                        then == StacksAfter(log, n - 1)
                    IN  /\ EligibleShelf(k, s, containers[id])
                        /\ can_add_container(then[k].shelves[s], containers[id], containers)
                        /\ \A k1 \in StackIdx : \A s1 \in ShelfIdx(k1) :
                              (EligibleShelf(k1, s1, containers[id]) /\ Before(k1, s1, k, s))
                                 => ~can_add_container(then[k1].shelves[s1],
                                                       containers[id], containers)
              /\ stacks' = [k \in StackIdx |->
                               [stacks[k] EXCEPT !.shelves =
                                   StacksAfter(log, Len(log))[k].shelves]]
              /\ ( /\ scenario = "D" /\ AllShelvesEmpty /\ last'.input = <<1, 2>>
                   /\ ~containers[1].is_empty /\ ~containers[2].is_empty )
                    => /\ stacks'[1].shelves[1].containers = <<1>>
                       /\ stacks'[2].shelves[1].containers = <<2>>
                       /\ unplaced_containers' = <<>> ]_vars

\* scenario D: a distribute_containers call on empty shelves put the first
\* container of weight 40 on stack 1 and the second one on stack 2
C9_Witness ==
    /\ scenario = "D"
    /\ last.op = "distribute_containers"
    /\ last.fresh
    /\ last.input = <<1, 2>>
    /\ last.ret.placement_log =
          << [container |-> "t1", stack |-> "S1", shelf |-> 0, type |-> "regular"],
             [container |-> "t2", stack |-> "S2", shelf |-> 0, type |-> "regular"] >>
    /\ unplaced_containers = <<>>

(* ---- C10 ------------------------------------------------------------------- *)
\* C10: after a distribute_containers call on empty shelves each container
\* of the input is either once on the shelves and not in unplaced_containers
\* or once in unplaced_containers and on no shelf, and unplaced_containers
\* holds containers of this call's input only.
C10_PlacedOrUnplaced ==
    [][ (last'.op = "distribute_containers" /\ AllShelvesEmpty) =>
          /\ \A id \in Range(last'.input) :
                \/ /\ Occurrences(stacks', id) = 1
                   /\ Count(unplaced_containers', id) = 0
                \/ /\ Occurrences(stacks', id) = 0
                   /\ Count(unplaced_containers', id) = 1
          /\ Range(unplaced_containers') \subseteq Range(last'.input) ]_vars

\* a distribute_containers call on empty shelves placed one container of
\* its input and left another one unplaced
C10_Witness ==
    /\ last.op = "distribute_containers"
    /\ last.fresh
    /\ unplaced_containers # <<>>
    /\ \E id \in Range(last.input) : Occurrences(stacks, id) = 1
    /\ \E id \in Range(last.input) : id \in Range(unplaced_containers)

(* ---- C11 ------------------------------------------------------------------- *)
\* C11: the placement_log returned by distribute_containers has one entry
\* for each container of the input, and each container the call left
\* unplaced has an entry in it.
C11_LogPerContainer ==
    [][ last'.op = "distribute_containers" =>
          /\ Len(last'.ret.placement_log) = Len(last'.input)
          /\ \A id \in Range(unplaced_containers') :
                \E i \in 1..Len(last'.ret.placement_log) :
                    last'.ret.placement_log[i].container = containers'[id].name ]_vars

(* ---- C12 ------------------------------------------------------------------- *)
IsPrefix(a, b) == Len(a) <= Len(b) /\ SubSeq(b, 1, Len(a)) = a

\* C12: organize_containers and distribute_containers only append to
\* shelves: for every shelf the container list before the call is a prefix
\* of the container list after the call.
C12_ShelvesOnlyGrow ==
    [][ last'.op \in {"organize_containers", "distribute_containers"} =>
          \A k \in StackIdx : \A s \in ShelfIdx(k) :
              IsPrefix(stacks[k].shelves[s].containers,
                       stacks'[k].shelves[s].containers) ]_vars

\* a call has put a container of its input behind a container that was on
\* the shelf before the call (it is not of the call's input)
C12_Witness ==
    /\ last.op \in {"organize_containers", "distribute_containers"}
    /\ \E k \in StackIdx : \E s \in ShelfIdx(k) :
          LET cs == stacks[k].shelves[s].containers
          IN  /\ Len(cs) = 2
              /\ cs[1] \notin Range(last.input)
              /\ cs[2] \in Range(last.input)

(* ---- C13 ------------------------------------------------------------------- *)
\* the topology of a warehouse: its stacks and shelves as built, with
\* nothing on the shelves and nothing tracked by the stacks
Topology(stks) ==
    [k \in DOMAIN stks |->
        [stks[k] EXCEPT
            !.empty_buffer = <<>>,
            !.history = <<>>,
            !.shelves = [s \in DOMAIN stks[k].shelves |->
                            [stks[k].shelves[s] EXCEPT !.containers = <<>>]]]]

C14_Idempotent ==
    [][ last'.op = "mark_container_empty" =>
          /\ containers[last'.c].is_empty =>
                /\ stacks' = stacks
                /\ containers' = containers
                /\ unplaced_containers' = unplaced_containers
          /\ mark_container_empty([stacks |-> stacks', containers |-> containers'],
                                  last'.k, last'.c)
               = [stacks |-> stacks', containers |-> containers'] ]_vars

\* mark_container_empty was called on the container that has been empty
\* from the start, while it stood on a shelf of the stack
C14_Witness ==
    /\ scenario = "T"
    /\ last.op = "mark_container_empty"
    /\ last.c = 3
    /\ find_current_shelf(stacks[last.k], 1, 3) # 0

(* ---- C15 ------------------------------------------------------------------- *)
\* the reserved shelf takes container c once c has left shelf cur of stack
\* k and has been flipped to empty
ReservedAccepts(k, cur, c) ==
    LET w1 == remove_container(World, k, cur, c).w
        cs == [w1.containers EXCEPT ![c].is_empty = TRUE,
                                    ![c].content = "",
                                    ![c].priority_parts = FALSE]
        es == get_empty_shelf(stacks[k])
    IN  es # 0 /\ can_add_container(w1.stacks[k].shelves[es], cs[c], cs)

\* C15: mark_container_empty on a non-empty container held by a shelf of
\* the stack flips it to empty and clears priority_parts and content; no
\* shelf but the topmost reserved one gains it; if the reserved shelf
\* accepts, the container ends on that shelf and on no other, is not in
\* empty_buffer, and one history record with the level it came from and the
\* reserved level is appended; otherwise it ends on no shelf, in
\* empty_buffer, and history is unchanged.
C15_MarkMoves ==
    [][ ( /\ last'.op = "mark_container_empty"
          /\ ~containers[last'.c].is_empty
          /\ find_current_shelf(stacks[last'.k], 1, last'.c) # 0 ) =>
          LET k == last'.k
              c == last'.c
              cur == find_current_shelf(stacks[k], 1, c)
              es == get_empty_shelf(stacks[k])
          IN  /\ containers'[c].is_empty
              /\ ~containers'[c].priority_parts
              /\ containers'[c].content = ""
              /\ \A s \in ShelfIdx(k) :
                    s # es => Count(stacks'[k].shelves[s].containers, c)
                                <= Count(stacks[k].shelves[s].containers, c)
              /\ IF ReservedAccepts(k, cur, c)
                 THEN /\ c \in Range(stacks'[k].shelves[es].containers)
                      /\ Occurrences(stacks', c) = 1
                      /\ c \notin Range(stacks'[k].empty_buffer)
                      /\ stacks'[k].history = Append(stacks[k].history,
                            [action |-> "move_to_buffer",
                             container |-> containers[c].name,
                             from_level |-> stacks[k].shelves[cur].level,
                             to_level |-> stacks[k].shelves[es].level])
                 ELSE /\ Occurrences(stacks', c) = 0
                      /\ c \in Range(stacks'[k].empty_buffer)
                      /\ stacks'[k].history = stacks[k].history ]_vars

(* ---- C16 ------------------------------------------------------------------- *)
\* container c, regular stock when the run began, is parked: flipped to
\* empty, tracked in the empty_buffer of stack k and on no shelf
Parked(k, c) ==
    /\ ~ScenarioR.containers[c].is_empty
    /\ containers[c].is_empty
    /\ c \in Range(stacks[k].empty_buffer)
    /\ Occurrences(stacks, c) = 0

\* C16: a mark_container_empty call on a container parked in empty_buffer,
\* made when the topmost reserved shelf can accept the container, puts it
\* on the reserved shelf and takes it out of empty_buffer.
C16_ParkedIsPlacedLater ==
    [][ ( /\ last'.op = "mark_container_empty"
          /\ Parked(last'.k, last'.c)
          /\ get_empty_shelf(stacks[last'.k]) # 0
          /\ can_add_container(
                stacks[last'.k].shelves[get_empty_shelf(stacks[last'.k])],
                containers[last'.c], containers) ) =>
          /\ last'.c \in Range(stacks'[last'.k].shelves[
                                  get_empty_shelf(stacks[last'.k])].containers)
          /\ last'.c \notin Range(stacks'[last'.k].empty_buffer) ]_vars

(* ---- C17 ------------------------------------------------------------------- *)
\* C17: in every state reached through organize_containers and
\* mark_container_empty calls, no container of a stack's empty_buffer is in
\* the container list of a shelf, and no container is in an empty_buffer
\* more than once.
C17_BufferHoldsUnplaced ==
    \A k \in StackIdx : \A id \in Range(stacks[k].empty_buffer) :
        /\ Occurrences(stacks, id) = 0
        /\ Count(stacks[k].empty_buffer, id) = 1

(* ---- C18 ------------------------------------------------------------------- *)
\* C18: distribute_post_containers_by_material, given a post of at least
\* one container and a non-empty stack list, returns its statistics with
\* placed_containers + unplaced_containers = total_containers = the number
\* of containers of the post.
C18_PostReturnsTotals ==
    [][ ( /\ last'.op = "distribute_post_containers_by_material"
          /\ last'.post # <<>>
          /\ last'.stacks # <<>> ) =>
          /\ ~last'.raised
          /\ last'.ret.total_containers = Len(last'.post)
          /\ last'.ret.placed_containers + last'.ret.unplaced_containers
               = last'.ret.total_containers ]_vars

(* ---- C19 ------------------------------------------------------------------- *)
\* C19: distribute_post_containers_by_material called with an empty stack
\* list raises an error; it returns no statistics object.
C19_EmptyStackListRaises ==
    [][ ( /\ last'.op = "distribute_post_containers_by_material"
          /\ last'.stacks = <<>> ) =>
          last'.raised ]_vars

(* ---- C20 ------------------------------------------------------------------- *)
\* place of a stack name in the stack list of a post distributor call
PosInList(sl, name) == CHOOSE i \in 1..Len(sl) : stacks[sl[i]].name = name

\* the containers of group A|steel and of group B|plastic of scenario E
GroupA == {1, 2, 3}
GroupB == {4, 5}

\* C20: along the placement log of distribute_post_containers_by_material
\* the (stack, shelf) position of a placement is never before that of an
\* earlier placement; and in scenario E (the post of groups A and B, one
\* stack of two shelves, all shelves empty) the call returns with two
\* containers of group A on shelf 0, the third on shelf 1, and no container
\* of group B on shelf 0.
C20_NeverBackward ==
    [][ last'.op = "distribute_post_containers_by_material" =>
          /\ ~last'.raised =>
                \A i, j \in 1..Len(last'.ret.placement_log) :
                    i < j =>
                      LET a == last'.ret.placement_log[i]
                          b == last'.ret.placement_log[j]
                          pa == PosInList(last'.stacks, a.stack)
                          pb == PosInList(last'.stacks, b.stack)
                      IN  pa < pb \/ (pa = pb /\ a.shelf <= b.shelf)
          /\ ( /\ last'.post = <<1, 2, 3, 4, 5>>
               /\ last'.stacks = <<1>>
               /\ AllShelvesEmpty ) =>
                /\ ~last'.raised
                /\ Len(stacks'[1].shelves[1].containers) = 2
                /\ Range(stacks'[1].shelves[1].containers) \subseteq GroupA
                /\ GroupA \ Range(stacks'[1].shelves[1].containers)
                      \subseteq Range(stacks'[1].shelves[2].containers)
                /\ Range(stacks'[1].shelves[1].containers) \cap GroupB = {} ]_vars

(* ---- C21 ------------------------------------------------------------------- *)
\* the state of the row fill once the first n containers of the shelf
\* have been walked through
RowAfter(shelf, cs, n) ==
    RowFill([shelf EXCEPT !.containers = SubSeq(@, 1, n)], cs, 1,
            [x_offset |-> Margin, z_offset |-> Margin, current_row_max_width |-> 0])

\* the n-th container of the shelf stands in the first row
InFirstRow(shelf, cs, n) == RowAfter(shelf, cs, n).z_offset = Margin

\* the three 60 x 40 x 45 containers of scenario A
SmallA == {1, 2, 3}

\* an add_container step of scenario A that puts one of the three small
\* containers behind others of them, on a shelf that holds nothing else
AddsSmallA ==
    /\ scenario = "A"
    /\ last'.op = "add_container"
    /\ last'.c \in SmallA
    /\ stacks[1].shelves[1].containers \in DistinctSeqs(SmallA \ {last'.c})

\* C21 as stated: in scenario A the three add_container calls succeed, the
\* first two containers share the first row, the third wraps into a second
\* row, and current_weight is 240 afterwards.
C21_ThirdWraps ==
    [][ AddsSmallA =>
          LET shelf == stacks'[1].shelves[1]
          IN  /\ last'.ret
              /\ shelf.containers = Append(stacks[1].shelves[1].containers, last'.c)
              /\ Len(shelf.containers) = 3 =>
                    /\ InFirstRow(shelf, containers', 1)
                    /\ InFirstRow(shelf, containers', 2)
                    /\ ~InFirstRow(shelf, containers', 3)
                    /\ current_weight(shelf, containers') = 240 ]_vars

\* C21: in scenario A the three add_container calls succeed and
\* current_weight is 240 afterwards; all three containers stand in the
\* first row (the third begins at x = 131 and ends at 191 <= 195, the row
\* fill is at x = 194 behind it), and no row wrap happens.
C21_ScenarioA ==
    [][ AddsSmallA =>
          LET shelf == stacks'[1].shelves[1]
          IN  /\ last'.ret
              /\ shelf.containers = Append(stacks[1].shelves[1].containers, last'.c)
              /\ \A n \in 1..Len(shelf.containers) : InFirstRow(shelf, containers', n)
              /\ Len(shelf.containers) = 3 =>
                    /\ RowAfter(shelf, containers', 2).x_offset = 131
                    /\ RowAfter(shelf, containers', 3).x_offset = 194
                    /\ current_weight(shelf, containers') = 240 ]_vars

\* the third of the three small containers has just been added to the
\* shelf of scenario A
C21_Witness ==
    /\ scenario = "A"
    /\ last.op = "add_container"
    /\ last.ret
    /\ Len(stacks[1].shelves[1].containers) = 3
    /\ stacks[1].shelves[1].containers \in DistinctSeqs(SmallA)
    /\ last.c = stacks[1].shelves[1].containers[3]

(* ---- C22 ----------------------------------------------------------------- *)
\* the fourth container of scenario A is asked for while the three small
\* ones, and nothing else, are on the shelf
AsksFlatA ==
    /\ last'.op = "can_add_container"
    /\ last'.c = 4
    /\ Len(stacks[1].shelves[1].containers) = 3
    /\ Range(stacks[1].shelves[1].containers) = SmallA

\* C22: on the shelf of scenario A holding the three 60 x 40 x 45
\* containers, can_add_container for the 100 x 100 x 10 container of weight
\* 10 returns false although the free area of the shelf is at least the
\* footprint of the container; stated for the can_add_container of each of
\* the two programs.
C22_AreaIsNotEnough ==
    [][ AsksFlatA =>
          /\ free_area(stacks[1].shelves[1], containers) >= base_area(containers[4])
          /\ last'.ret = FALSE ]_vars

(* ---- C23 ----------------------------------------------------------------- *)
\* the levels of the shelves of stack k that hold container id
LevelsOf(stk, id) ==
    {stk.shelves[s].level : s \in {t \in 1..Len(stk.shelves) : id \in Range(stk.shelves[t].containers)}}

IsRegular(c) == ~c.is_empty /\ ~c.priority_parts

\* C23: heavy containers are always at the bottom: after organize_containers
\* on a stack whose shelves start empty, no placed regular (non-empty,
\* non-priority) container sits on a higher level than a strictly lighter
\* placed regular container.
C23_HeavyAtBottom ==
    [][ ( /\ last'.op = "organize_containers"
          /\ \A s \in ShelfIdx(last'.k) : stacks[last'.k].shelves[s].containers = <<>> )
        => \A a, b \in Range(last'.input) :
              ( /\ IsRegular(containers'[a]) /\ IsRegular(containers'[b])
                /\ containers'[b].weight < containers'[a].weight )
              => \A la \in LevelsOf(stacks'[last'.k], a) :
                   \A lb \in LevelsOf(stacks'[last'.k], b) : la <= lb ]_vars

(* ---- C24 ----------------------------------------------------------------- *)
\* the regular containers of an input list, in input order
RegularIn(input) == SelectSeq(input, LAMBDA id : IsRegular(containers[id]))

PosIn(seq, e) == CHOOSE i \in 1..Len(seq) : seq[i] = e

\* the shelves of stack k as they were when the n-th entry of the log of
\* organize_containers had been written
RECURSIVE ShelvesAfter(_, _, _)
ShelvesAfter(k, log, n) ==
    IF n = 0 THEN stacks[k].shelves
    ELSE IF log[n].status = "placed"
         THEN [ShelvesAfter(k, log, n - 1) EXCEPT
                 ![ShelfOfLevel(k, log[n].level)].containers =
                     Append(@, IdOfName(log[n].container))]
         ELSE ShelvesAfter(k, log, n - 1)

\* C24: the regular tier of organize_containers: the containers of the
\* input that are neither empty nor priority are attempted in descending
\* weight, equal weights in input order, before any priority or empty
\* container; each goes to the lowest-level non-reserved shelf whose
\* add_container succeeds at that moment, or is logged not_placed if there
\* is none.
C24_RegularTier ==
    [][ last'.op = "organize_containers" =>
          LET k == last'.k
              log == last'.ret
              reg == RegularIn(last'.input)
              n == Len(reg)
          IN  /\ Len(log) = Len(last'.input)
              /\ \A i \in 1..Len(log) : (log[i].type = "regular") <=> (i <= n)
              /\ {IdOfName(log[i].container) : i \in 1..n} = Range(reg)
              /\ \A i, j \in 1..n :
                    i < j =>
                      \/ log[i].weight > log[j].weight
                      \/ /\ log[i].weight = log[j].weight
                         /\ PosIn(last'.input, IdOfName(log[i].container))
                              < PosIn(last'.input, IdOfName(log[j].container))
              /\ \A i \in 1..n :
                    LET id == IdOfName(log[i].container)
                        then == ShelvesAfter(k, log, i - 1)
                        accepting == {s \in ShelfIdx(k) :
                                        /\ ~then[s].reserved_for_empty
                                        /\ can_add_container(then[s], containers[id],
                                                             containers)}
                    IN  /\ log[i].weight = containers[id].weight
                        /\ IF accepting = {} THEN log[i].status = "not_placed"
                           ELSE /\ log[i].status = "placed"
                                /\ \E s \in accepting :
                                      /\ then[s].level = log[i].level
                                      /\ \A t \in accepting : then[s].level <= then[t].level
              /\ stacks'[k].shelves = ShelvesAfter(k, log, Len(log)) ]_vars

\* scenario H: organize_containers on the empty stack with h3, h2, h1 put
\* h2 on level 0 before h1 of the same weight, h1 on level 1 and h3 on
\* level 0
C24_Witness ==
    /\ scenario = "H"
    /\ calls = 1
    /\ last.op = "organize_containers"
    /\ last.input = <<3, 2, 1>>
    /\ [i \in 1..3 |-> <<last.ret[i].container, last.ret[i].status, last.ret[i].level>>]
          = << <<"h2", "placed", 0>>, <<"h1", "placed", 1>>, <<"h3", "placed", 0>> >>

(* ---- C25 ----------------------------------------------------------------- *)
\* total weight of the containers of a post that belong to the group of a
\* placement_log entry
GroupWeightOf(post, e) ==
    SumSeq([i \in 1..Len(post) |->
              IF article_of(containers[post[i]]) = e.article
                 /\ material_of(containers[post[i]]) = e.material
              THEN containers[post[i]].weight ELSE 0])

SameGroup(a, b) == a.article = b.article /\ a.material = b.material

\* C25: distribute_post_containers_by_material works through the groups
\* (article, material) by ascending article, groups of one article by
\* descending total weight, the containers of a group by descending weight,
\* and one group is finished before the next is begun: the placement log
\* is in that order; in scenario E the post b1, a2, b2, a3, a1 on one stack
\* of empty shelves is placed in the order a1, a2, a3, b1.
C25_GroupOrder ==
    [][ last'.op = "distribute_post_containers_by_material" =>
          /\ ~last'.raised =>
                LET log == last'.ret.placement_log
                IN  /\ \A i, j \in 1..Len(log) :
                          i < j =>
                            IF SameGroup(log[i], log[j])
                            THEN log[i].weight >= log[j].weight
                            ELSE \/ str_less(log[i].article, log[j].article)
                                 \/ /\ log[i].article = log[j].article
                                    /\ GroupWeightOf(last'.post, log[i])
                                         >= GroupWeightOf(last'.post, log[j])
                    /\ \A i, j, l \in 1..Len(log) :
                          (i < j /\ j < l /\ SameGroup(log[i], log[l]))
                             => SameGroup(log[i], log[j])
          /\ ( /\ last'.post = <<4, 2, 5, 3, 1>>
               /\ last'.stacks = <<1>>
               /\ AllShelvesEmpty ) =>
                /\ ~last'.raised
                /\ [i \in 1..Len(last'.ret.placement_log) |->
                       last'.ret.placement_log[i].container]
                     = <<"a1", "a2", "a3", "b1">> ]_vars

(* ---- C26 ----------------------------------------------------------------- *)
\* C26: in distribute_post_containers_by_material a container whose every
\* placement attempt fails is counted unplaced and leaves the cursor where
\* it was: every container of the post is either in the placement log or
\* counted unplaced; in scenario E the post a1, a2, a3, b1, b2 on one stack
\* of empty shelves ends with b2 alone counted unplaced and on no shelf.
C26_FailedIsCounted ==
    [][ last'.op = "distribute_post_containers_by_material" =>
          /\ ~last'.raised =>
                last'.ret.unplaced_containers
                   = Len(last'.post) - Len(last'.ret.placement_log)
          /\ ( /\ last'.post = <<1, 2, 3, 4, 5>>
               /\ last'.stacks = <<1>>
               /\ AllShelvesEmpty ) =>
                /\ ~last'.raised
                /\ last'.ret.unplaced_containers = 1
                /\ Occurrences(stacks', 5) = 0
                /\ \A id \in 1..4 : Occurrences(stacks', id) = 1 ]_vars

(* ---- C27 ----------------------------------------------------------------- *)
\* C27: distribute_post_containers_by_material tries a container on the
\* shelf at the cursor, on the next shelf of that stack and on shelf 0 of
\* the next stack only: a placement is on the stack of the placement before
\* it and at most one shelf further, or on shelf 0 of the stack behind it
\* in the list; in scenario E the post a1, a2, a3, b1, b2 on one stack of
\* empty shelves goes to the shelves 0, 0, 1, 1.
C27_ThreeShelves ==
    [][ last'.op = "distribute_post_containers_by_material" =>
          /\ ~last'.raised =>
                LET log == last'.ret.placement_log
                IN  \A j \in 2..Len(log) :
                       LET pa == PosInList(last'.stacks, log[j - 1].stack)
                           pb == PosInList(last'.stacks, log[j].stack)
                       IN  \/ pb = pa /\ log[j].shelf <= log[j - 1].shelf + 1
                           \/ pb = pa + 1 /\ log[j].shelf = 0
          /\ ( /\ last'.post = <<1, 2, 3, 4, 5>>
               /\ last'.stacks = <<1>>
               /\ AllShelvesEmpty ) =>
                /\ ~last'.raised
                /\ [i \in 1..Len(last'.ret.placement_log) |->
                       <<last'.ret.placement_log[i].container,
                         last'.ret.placement_log[i].shelf>>]
                     = << <<"a1", 0>>, <<"a2", 0>>, <<"a3", 1>>, <<"b1", 1>> >> ]_vars

(* ---- C28 ----------------------------------------------------------------- *)
\* C28: replayable layout: after any sequence of add_container and
\* remove_container calls the renderer's replay of a shelf's container list
\* through the row packing draws every container of the shelf, each inside
\* the bounds: x + length <= shelf.length - 5 and rowTop + width <=
\* shelf.width - 5.
C28_ReplayDrawsAll ==
    \A k \in StackIdx : \A s \in ShelfIdx(k) :
        LET boxes == drawn_boxes(stacks[k], s, containers)
        IN  /\ [i \in 1..Len(boxes) |-> boxes[i].id] = stacks[k].shelves[s].containers
            /\ \A i \in 1..Len(boxes) :
                  /\ boxes[i].x_max <= stacks[k].shelves[s].length - Margin
                  /\ boxes[i].z_max <= stacks[k].shelves[s].width - Margin

(* ---- C29 ----------------------------------------------------------------- *)
\* sum of the counts of a by_stack dictionary
RECURSIVE SumOver(_, _)
SumOver(f, keys) ==
    IF keys = {} THEN 0
    ELSE LET n == CHOOSE x \in keys : TRUE
         IN  f[n] + SumOver(f, keys \ {n})

\* number of placement_log entries of a container name
LogCount(log, name) == Cardinality({i \in 1..Len(log) : log[i].container = name})

\* C29: the statistics of Warehouse.distribute_containers are consistent
\* for every input list: placed + not_placed = total_containers = length of
\* the input, the three by_type counts sum to placed, the by_stack counts
\* sum to placed, not_placed is the length of unplaced_containers, and a
\* container flagged both empty and priority is counted once, in the empty
\* tier.
C29_StatsConsistent ==
    [][ last'.op = "distribute_containers" =>
          LET st == last'.ret
          IN  /\ st.total_containers = Len(last'.input)
              /\ st.placed + st.not_placed = st.total_containers
              /\ st.by_type.regular + st.by_type.priority + st.by_type.empty = st.placed
              /\ SumOver(st.by_stack, DOMAIN st.by_stack) = st.placed
              /\ st.not_placed = Len(unplaced_containers')
              /\ Len(st.placement_log) = st.placed
              /\ \A id \in Range(last'.input) :
                    (containers[id].is_empty /\ containers[id].priority_parts) =>
                       /\ LogCount(st.placement_log, containers[id].name)
                            + Count(unplaced_containers', id) = 1
                       /\ \A i \in 1..Len(st.placement_log) :
                             st.placement_log[i].container = containers[id].name
                                => st.placement_log[i].type = "empty" ]_vars

\* scenario S: a distribute_containers call of all three containers placed
\* the container flagged both empty and priority in the empty tier and left
\* another container unplaced
C29_Witness ==
    /\ scenario = "S"
    /\ last.op = "distribute_containers"
    /\ Len(last.input) = 3
    /\ containers[3].is_empty /\ containers[3].priority_parts
    /\ \E i \in 1..Len(last.ret.placement_log) :
          /\ last.ret.placement_log[i].container = "c3"
          /\ last.ret.placement_log[i].type = "empty"
    /\ last.ret.by_type.empty = 1
    /\ last.ret.not_placed >= 1
    /\ last.ret.placed = 2

(* ---- C30 ----------------------------------------------------------------- *)
\* C30: the shelf levels of a stack are contiguous: after any number of
\* add_shelf calls the i-th shelf of the stack (0-based, in add order) has
\* level i, and every shelf has the base_length and base_width of the stack
\* as its length and width.
C30_LevelsContiguous ==
    \A k \in StackIdx : \A i \in ShelfIdx(k) :
        /\ stacks[k].shelves[i].level = i - 1
        /\ stacks[k].shelves[i].length = stacks[k].base_length
        /\ stacks[k].shelves[i].width = stacks[k].base_width

\* three add_shelf calls have built a stack of three shelves
C30_Witness ==
    /\ scenario \in {"L", CalcL}
    /\ last.op = "add_shelf"
    /\ Len(stacks[1].shelves) = 3
    /\ stacks[1].shelves[3].level = 2

====
